---- MODULE Spec2Model ----
(***************************************************************************)
(* Model of the security log analyzer, scripts/log_analyzer.py             *)
(* (class LogAnalyzer: parse_line, sanitize_ip, analyze).                   *)
(*                                                                         *)
(* Text.  A string is a sequence of one-character strings.  A log line is  *)
(* the sequence of its whitespace-separated tokens, as line.strip() and    *)
(* the five regular expressions see it: every non-space group and every    *)
(* literal of the patterns is delimited by white space, so a pattern       *)
(* matches a line exactly when it matches token by token.  Only the        *)
(* trailing groups (the command, the details) span several tokens.         *)
(***************************************************************************)
EXTENDS Integers, Sequences, FiniteSets, TLC

--------------------------------------------------------------------------
(* Characters and tokens *)

DigitChars == <<"0", "1", "2", "3", "4", "5", "6", "7", "8", "9">>

\* \d
IsDigit(c) == \E i \in 1..Len(DigitChars) : DigitChars[i] = c

DigitVal(c) == (CHOOSE i \in 1..Len(DigitChars) : DigitChars[i] = c) - 1

\* \d+ as a whole token
AllDigits(t) == Len(t) > 0 /\ \A i \in 1..Len(t) : IsDigit(t[i])

\* int() of a token of one or two digits
TwoDigitVal(a, b) == DigitVal(a) * 10 + DigitVal(b)

StartsWith(t, p) == Len(t) >= Len(p) /\ SubSeq(t, 1, Len(p)) = p

Drop(t, n) == SubSeq(t, n + 1, Len(t))

UpperChars == <<"A", "B", "C", "D", "E", "F", "G", "H", "I", "J", "K", "L", "M",
                "N", "O", "P", "Q", "R", "S", "T", "U", "V", "W", "X", "Y", "Z">>

LowerChars == <<"a", "b", "c", "d", "e", "f", "g", "h", "i", "j", "k", "l", "m",
                "n", "o", "p", "q", "r", "s", "t", "u", "v", "w", "x", "y", "z">>

\* strptime matches %b with re.IGNORECASE
LowerChar(c) ==
    IF \E i \in 1..Len(UpperChars) : UpperChars[i] = c
    THEN LowerChars[CHOOSE i \in 1..Len(UpperChars) : UpperChars[i] = c]
    ELSE c

LowerToken(t) == [i \in 1..Len(t) |-> LowerChar(t[i])]

--------------------------------------------------------------------------
(* Literals of the regular expressions, lines 21-25 *)

L_server == <<"s", "e", "r", "v", "e", "r">>
L_sudo == <<"s", "u", "d", "o">>
L_su == <<"s", "u">>
L_useradd == <<"u", "s", "e", "r", "a", "d", "d">>
L_userdel == <<"u", "s", "e", "r", "d", "e", "l">>
L_passwd == <<"p", "a", "s", "s", "w", "d">>
L_sshd == <<"s", "s", "h", "d">>
L_colon == <<":">>
L_semi == <<";">>
L_tty_pts == <<"T", "T", "Y", "=", "p", "t", "s", "/">>
L_pwd_eq == <<"P", "W", "D", "=">>
L_USER_eq == <<"U", "S", "E", "R", "=">>
L_USER_root == <<"U", "S", "E", "R", "=", "r", "o", "o", "t">>
L_COMMAND_eq == <<"C", "O", "M", "M", "A", "N", "D", "=">>
L_pam_unix == <<"p", "a", "m", "_", "u", "n", "i", "x", "(", "s", "u", "d", "o", ":", "a", "u", "t", "h", ")", ":">>
L_authentication == <<"a", "u", "t", "h", "e", "n", "t", "i", "c", "a", "t", "i", "o", "n">>
L_failure == <<"f", "a", "i", "l", "u", "r", "e", ";">>
L_logname_eq == <<"l", "o", "g", "n", "a", "m", "e", "=">>
L_uid_eq == <<"u", "i", "d", "=">>
L_euid_eq == <<"e", "u", "i", "d", "=">>
L_tty_eq == <<"t", "t", "y", "=">>
L_ruser_eq == <<"r", "u", "s", "e", "r", "=">>
L_rhost_eq == <<"r", "h", "o", "s", "t", "=">>
L_user_eq == <<"u", "s", "e", "r", "=">>
L_Failed == <<"F", "a", "i", "l", "e", "d">>
L_Accepted == <<"A", "c", "c", "e", "p", "t", "e", "d">>
L_password == <<"p", "a", "s", "s", "w", "o", "r", "d">>
L_for == <<"f", "o", "r">>
L_from == <<"f", "r", "o", "m">>
L_port == <<"p", "o", "r", "t">>
L_ssh2 == <<"s", "s", "h", "2">>

\* (\d{2}:\d{2}:\d{2})
IsTimeToken(t) ==
    /\ Len(t) = 8
    /\ t[3] = ":" /\ t[6] = ":"
    /\ \A i \in {1, 2, 4, 5, 7, 8} : IsDigit(t[i])

\* name\[(\d+)\]:
IsProcToken(t, name) ==
    /\ Len(t) >= Len(name) + 4
    /\ StartsWith(t, name \o <<"[">>)
    /\ t[Len(t) - 1] = "]" /\ t[Len(t)] = ":"
    /\ AllDigits(SubSeq(t, Len(name) + 2, Len(t) - 2))

\* literal followed by \S+
HasPrefixMore(t, p) == StartsWith(t, p) /\ Len(t) > Len(p)

\* literal followed by \d+
HasPrefixDigits(t, p) == StartsWith(t, p) /\ AllDigits(Drop(t, Len(p)))

\* ^(\S+)\s+(\d+)\s+(\d{2}:\d{2}:\d{2})\s+server\s+ : the head shared by the
\* five patterns (groups 1, 2, 3: month, day, time)
HeadMatch(line) ==
    /\ Len(line) >= 5
    /\ AllDigits(line[2])
    /\ IsTimeToken(line[3])
    /\ line[4] = L_server

\* sudo\[(\d+)\]:\s+(\S+)\s+:\s+TTY=pts/\d+\s+;\s+PWD=\S+\s+;\s+USER=...\s+;\s+COMMAND=(.+)$
\* with the USER= token left to the caller
SudoShape(line) ==
    /\ HeadMatch(line)
    /\ Len(line) >= 14
    /\ IsProcToken(line[5], L_sudo)
    /\ line[7] = L_colon
    /\ HasPrefixDigits(line[8], L_tty_pts)
    /\ line[9] = L_semi
    /\ HasPrefixMore(line[10], L_pwd_eq)
    /\ line[11] = L_semi
    /\ line[13] = L_semi
    /\ StartsWith(line[14], L_COMMAND_eq)
    /\ (Len(line[14]) > Len(L_COMMAND_eq) \/ Len(line) > 14)

\* command_regex, line 21
command_regex(line) == SudoShape(line) /\ HasPrefixMore(line[12], L_USER_eq)

UserProcNames == {L_useradd, L_userdel, L_passwd, L_su, L_sudo}

\* group 4 of user_regex: the alternative that matches the process token
UserEvent(line) == CHOOSE n \in UserProcNames : IsProcToken(line[5], n)

\* user_regex, line 22; the \s+ before (.*) survives line.strip() only when a
\* further token follows
user_regex(line) ==
    /\ HeadMatch(line)
    /\ \E n \in UserProcNames : IsProcToken(line[5], n)
    /\ Len(line) >= 6

\* sudo_command_regex, line 23
sudo_command_regex(line) == SudoShape(line) /\ line[12] = L_USER_root

\* sudo_failure_regex, line 24
sudo_failure_regex(line) ==
    /\ HeadMatch(line)
    /\ Len(line) = 15
    /\ IsProcToken(line[5], L_sudo)
    /\ line[6] = L_pam_unix
    /\ line[7] = L_authentication
    /\ line[8] = L_failure
    /\ HasPrefixMore(line[9], L_logname_eq)
    /\ HasPrefixDigits(line[10], L_uid_eq)
    /\ HasPrefixDigits(line[11], L_euid_eq)
    /\ HasPrefixMore(line[12], L_tty_eq)
    /\ StartsWith(line[13], L_ruser_eq)
    /\ HasPrefixMore(line[14], L_rhost_eq)
    /\ HasPrefixMore(line[15], L_user_eq)

\* hydra_attack_regex, line 25
hydra_attack_regex(line) ==
    /\ HeadMatch(line)
    /\ Len(line) = 14
    /\ IsProcToken(line[5], L_sshd)
    /\ line[6] \in {L_Failed, L_Accepted}
    /\ line[7] = L_password
    /\ line[8] = L_for
    /\ line[10] = L_from
    /\ line[12] = L_port
    /\ AllDigits(line[13])
    /\ line[14] = L_ssh2

\* the text captured by COMMAND=(.+)$ : the rest of the line after COMMAND=
CommandText(line) == <<Drop(line[14], Len(L_COMMAND_eq))>> \o SubSeq(line, 15, Len(line))

\* the text captured by (.*)$ of user_regex
DetailsText(line) == SubSeq(line, 6, Len(line))

--------------------------------------------------------------------------
(* datetime.strptime(f"{year} {month} {day} {time}", '%Y %b %d %H:%M:%S') *)

\* Python's None (returned by parse_line) and a raised ValueError (from
\* strptime) are both modelled by the empty tuple: "if entry:" is false for it
None == <<>>

ValueError == <<>>

MonthAbbrs == << <<"j", "a", "n">>, <<"f", "e", "b">>, <<"m", "a", "r">>,
                 <<"a", "p", "r">>, <<"m", "a", "y">>, <<"j", "u", "n">>,
                 <<"j", "u", "l">>, <<"a", "u", "g">>, <<"s", "e", "p">>,
                 <<"o", "c", "t">>, <<"n", "o", "v">>, <<"d", "e", "c">> >>

\* the index of a lower-cased token among the month abbreviations, 0 when it
\* is none of them
MonthIndex(lt) ==
    IF \E i \in 1..Len(MonthAbbrs) : MonthAbbrs[i] = lt
    THEN CHOOSE i \in 1..Len(MonthAbbrs) : MonthAbbrs[i] = lt
    ELSE 0

\* %b : the month number, 0 when the token is no month abbreviation
MonthNum(t) == MonthIndex(LowerToken(t))

\* %d : 3[0-1]|[1-2]\d|0[1-9]|[1-9] over the whole token; 0 when it does not match
DayNum(t) ==
    IF Len(t) = 1 /\ DigitVal(t[1]) >= 1 THEN DigitVal(t[1])
    ELSE IF Len(t) = 2 /\ TwoDigitVal(t[1], t[2]) >= 1 /\ TwoDigitVal(t[1], t[2]) <= 31
         THEN TwoDigitVal(t[1], t[2])
         ELSE 0

IsLeap(y) == y % 4 = 0 /\ (y % 100 # 0 \/ y % 400 = 0)

DaysInMonth(y, m) ==
    IF m = 2 THEN (IF IsLeap(y) THEN 29 ELSE 28)
    ELSE IF m \in {4, 6, 9, 11} THEN 30 ELSE 31

\* datetime(year, month, day, hour, minute, second) from the parsed fields:
\* the datetime <<year, month, day, hour, minute, second>>, or ValueError.
\* %Y needs four digits; %H is 00-23, %M 00-59; %S admits 60 and 61, which
\* the datetime constructor then rejects.
MakeDatetime(year, m, d, hh, mm, ss) ==
    IF /\ year >= 1000 /\ year <= 9999
       /\ m # 0
       /\ d # 0 /\ d <= DaysInMonth(year, m)
       /\ hh <= 23 /\ mm <= 59 /\ ss <= 59
    THEN <<year, m, d, hh, mm, ss>>
    ELSE ValueError

strptime(year, mon, day, time) ==
    MakeDatetime(year, MonthNum(mon), DayNum(day),
                 TwoDigitVal(time[1], time[2]),
                 TwoDigitVal(time[4], time[5]),
                 TwoDigitVal(time[7], time[8]))

\* datetime.__lt__ : lexicographic on the six fields
RECURSIVE LexLess(_, _, _)
LexLess(a, b, i) ==
    IF i > Len(a) THEN FALSE
    ELSE IF a[i] < b[i] THEN TRUE
    ELSE IF a[i] > b[i] THEN FALSE
    ELSE LexLess(a, b, i + 1)

DatetimeLess(a, b) == LexLess(a, b, 1)

--------------------------------------------------------------------------
(* sanitize_ip, lines 150-164 *)

\* ip.split('.') : the parts between the dots; the empty string gives ['']
RECURSIVE SplitDots(_, _, _)
SplitDots(s, i, cur) ==
    IF i > Len(s) THEN <<cur>>
    ELSE IF s[i] = "." THEN <<cur>> \o SplitDots(s, i + 1, <<>>)
    ELSE SplitDots(s, i + 1, Append(cur, s[i]))

split(s) == SplitDots(s, 1, <<>>)

MaskTail == <<".", "X", "X", "X", ".", "X", "X", "X">>

FullMask == <<"X", "X", "X", ".", "X", "X", "X", ".", "X", "X", "X", ".", "X", "X", "X">>

\* MaskParts with the length test loosened to "at least four parts"
MaskParts_at_least_four(parts) ==
    IF Len(parts) >= 4
    THEN parts[1] \o <<".">> \o parts[2] \o MaskTail
    ELSE FullMask

\* MaskParts masking the last octets with a single XXX
MaskParts_one_mask(parts) ==
    IF Len(parts) = 4
    THEN parts[1] \o <<".">> \o parts[2] \o <<".", "X", "X", "X">>
    ELSE FullMask

\* lines 162-164
MaskParts(parts) ==
    IF Len(parts) = 4
    THEN parts[1] \o <<".">> \o parts[2] \o MaskTail
    ELSE FullMask

sanitize_ip(ip) == MaskParts(split(ip))

--------------------------------------------------------------------------
(* parse_line, lines 56-148 *)

CounterNames == {"total_entries", "commands", "user_changes", "sudo_commands",
                 "failed_sudo", "failed_logins", "successful_logins",
                 "potential_attacks"}

\* self.statistics as __init__ builds it, lines 45-54
ZeroStatistics == [k \in CounterNames |-> 0]

\* a rendered message: the template (named by its leading words) and the
\* values substituted into it
Message(kind, timestamp, user, text, ip, port) ==
    [kind |-> kind, timestamp |-> timestamp, user |-> user, text |-> text,
     ip |-> ip, port |-> port]

Returned(entry, stats) == [returned |-> TRUE, entry |-> entry, statistics |-> stats]

FellThrough(stats) == [returned |-> FALSE, entry |-> None, statistics |-> stats]

LineTimestamp(year, line) == strptime(year, line[1], line[2], line[3])

\* command_block counting the entry itself as well, on top of analyze's count
command_block_counts_total(stats, timestamp, line) ==
    IF timestamp = ValueError THEN Returned(None, stats)
    ELSE Returned(
           <<timestamp,
             Message("Command Log", timestamp, line[6], CommandText(line), <<>>, <<>>)>>,
           [stats EXCEPT !["commands"] = @ + 1, !["total_entries"] = @ + 1])

\* command_block with the counter stepped the wrong way
command_block_decrements(stats, timestamp, line) ==
    IF timestamp = ValueError THEN Returned(None, stats)
    ELSE Returned(
           <<timestamp,
             Message("Command Log", timestamp, line[6], CommandText(line), <<>>, <<>>)>>,
           [stats EXCEPT !["commands"] = @ - 1])

\* lines 69-77, with the timestamp strptime produced (or ValueError)
command_block(stats, timestamp, line) ==
    IF timestamp = ValueError THEN Returned(None, stats)
    ELSE Returned(
           <<timestamp,
             Message("Command Log", timestamp, line[6], CommandText(line), <<>>, <<>>)>>,
           [stats EXCEPT !["commands"] = @ + 1])

\* lines 66-77
command_branch(stats, year, line) ==
    IF command_regex(line)
    THEN command_block(stats, LineTimestamp(year, line), line)
    ELSE FellThrough(stats)

\* user_dispatch with the sudo arm leaving sudo_commands alone
user_dispatch_sudo_uncounted(counted, timestamp, event, details) ==
    IF event = L_useradd
      THEN Returned(<<timestamp, Message("User Add", timestamp, <<>>, details, <<>>, <<>>)>>, counted)
    ELSE IF event = L_userdel
      THEN Returned(<<timestamp, Message("User Delete", timestamp, <<>>, details, <<>>, <<>>)>>, counted)
    ELSE IF event = L_passwd
      THEN Returned(<<timestamp, Message("Password Change", timestamp, <<>>, details, <<>>, <<>>)>>, counted)
    ELSE IF event = L_sudo
      THEN Returned(<<timestamp, Message("ALERT!!!! sudo Command", timestamp, <<>>, details, <<>>, <<>>)>>,
                    counted)
    ELSE FellThrough(counted)

\* lines 91-99, with user_changes already incremented in counted; the event
\* "su" has no arm in the if/elif chain, so control leaves the block
user_dispatch(counted, timestamp, event, details) ==
    IF event = L_useradd
      THEN Returned(<<timestamp, Message("User Add", timestamp, <<>>, details, <<>>, <<>>)>>, counted)
    ELSE IF event = L_userdel
      THEN Returned(<<timestamp, Message("User Delete", timestamp, <<>>, details, <<>>, <<>>)>>, counted)
    ELSE IF event = L_passwd
      THEN Returned(<<timestamp, Message("Password Change", timestamp, <<>>, details, <<>>, <<>>)>>, counted)
    ELSE IF event = L_sudo
      THEN Returned(<<timestamp, Message("ALERT!!!! sudo Command", timestamp, <<>>, details, <<>>, <<>>)>>,
                    [counted EXCEPT !["sudo_commands"] = @ + 1])
    ELSE FellThrough(counted)

\* user_block with user_changes incremented before the timestamp is parsed
user_block_counts_first(stats, timestamp, line) ==
    IF timestamp = ValueError
    THEN Returned(None, [stats EXCEPT !["user_changes"] = @ + 1])
    ELSE user_dispatch([stats EXCEPT !["user_changes"] = @ + 1], timestamp,
                       UserEvent(line), DetailsText(line))

\* lines 82-99
user_block(stats, timestamp, line) ==
    IF timestamp = ValueError THEN Returned(None, stats)
    ELSE user_dispatch([stats EXCEPT !["user_changes"] = @ + 1], timestamp,
                       UserEvent(line), DetailsText(line))

\* lines 79-99
user_branch(stats, year, line) ==
    IF user_regex(line)
    THEN user_block(stats, LineTimestamp(year, line), line)
    ELSE FellThrough(stats)

\* lines 104-112
sudo_command_block(stats, timestamp, line) ==
    IF timestamp = ValueError THEN Returned(None, stats)
    ELSE Returned(
           <<timestamp,
             Message("sudo Command", timestamp, line[6], CommandText(line), <<>>, <<>>)>>,
           [stats EXCEPT !["sudo_commands"] = @ + 1])

\* lines 101-112
sudo_command_branch(stats, year, line) ==
    IF sudo_command_regex(line)
    THEN sudo_command_block(stats, LineTimestamp(year, line), line)
    ELSE FellThrough(stats)

\* lines 117-125; group 5 is the text after "user="
sudo_failure_block(stats, timestamp, line) ==
    IF timestamp = ValueError THEN Returned(None, stats)
    ELSE Returned(
           <<timestamp,
             Message("ALERT! Failed sudo", timestamp, Drop(line[15], Len(L_user_eq)),
                     <<>>, <<>>, <<>>)>>,
           [stats EXCEPT !["failed_sudo"] = @ + 1, !["potential_attacks"] = @ + 1])

\* lines 114-125
sudo_failure_branch(stats, year, line) ==
    IF sudo_failure_regex(line)
    THEN sudo_failure_block(stats, LineTimestamp(year, line), line)
    ELSE FellThrough(stats)

\* lines 135-146: status is group 5, target_user group 6, ip_address group 7,
\* port group 8
hydra_dispatch(stats, timestamp, status, target_user, masked_ip, port) ==
    IF status = L_Failed
      THEN Returned(
             <<timestamp,
               Message("Hydra Attack - Failed login attempt", timestamp, target_user,
                       <<>>, masked_ip, port)>>,
             [stats EXCEPT !["failed_logins"] = @ + 1, !["potential_attacks"] = @ + 1])
    ELSE IF status = L_Accepted
      THEN Returned(
             <<timestamp,
               Message("Hydra Attack - Successful login", timestamp, target_user,
                       <<>>, masked_ip, port)>>,
             [stats EXCEPT !["successful_logins"] = @ + 1])
    ELSE FellThrough(stats)

\* hydra_block rendering the source address as it stands in the line
hydra_block_raw_ip(stats, timestamp, line) ==
    IF timestamp = ValueError THEN Returned(None, stats)
    ELSE hydra_dispatch(stats, timestamp, line[6], line[9], line[11], line[13])

\* lines 130-146
hydra_block(stats, timestamp, line) ==
    IF timestamp = ValueError THEN Returned(None, stats)
    ELSE hydra_dispatch(stats, timestamp, line[6], line[9], sanitize_ip(line[11]), line[13])

\* lines 127-146
hydra_branch(stats, year, line) ==
    IF hydra_attack_regex(line)
    THEN hydra_block(stats, LineTimestamp(year, line), line)
    ELSE FellThrough(stats)

\* what parse_line returns once a block has returned
Outcome(r) == [entry |-> r.entry, statistics |-> r.statistics]

\* parse_line after its fifth block: line 148 returns None unless the block returned
AfterHydra(r) ==
    IF r.returned THEN Outcome(r)
    ELSE [entry |-> None, statistics |-> r.statistics]

\* parse_line after its fourth block
AfterSudoFailure(r, year, line) ==
    IF r.returned THEN Outcome(r)
    ELSE AfterHydra(hydra_branch(r.statistics, year, line))

\* parse_line after its third block
AfterSudoCommand(r, year, line) ==
    IF r.returned THEN Outcome(r)
    ELSE AfterSudoFailure(sudo_failure_branch(r.statistics, year, line), year, line)

\* parse_line after its second block
AfterUser(r, year, line) ==
    IF r.returned THEN Outcome(r)
    ELSE AfterSudoCommand(sudo_command_branch(r.statistics, year, line), year, line)

\* parse_line after its first block
AfterCommand(r, year, line) ==
    IF r.returned THEN Outcome(r)
    ELSE AfterUser(user_branch(r.statistics, year, line), year, line)

\* parse_line with the account block tried ahead of the command block
parse_line_user_first(stats, year, line) ==
    AfterUser(user_branch(stats, year, line), year, line)

\* parse_line(line) on an analyzer whose statistics are stats: the returned
\* entry (or None) and the statistics it leaves
parse_line(stats, year, line) ==
    AfterCommand(command_branch(stats, year, line), year, line)

--------------------------------------------------------------------------
(* The input file: lines of the shapes scripts/generate_test_logs.py       *)
(* writes, each under four timestamps, and two lines of noise              *)

\* a valid date in every year
\*   Jan 5 10:00:00
Stamp_Jan5 ==
    << <<"J", "a", "n">>,
       <<"5">>,
       <<"1", "0", ":", "0", "0", ":", "0", "0">> >>

\* a date that exists only in a leap year
\*   Feb 29 00:00:00
Stamp_Feb29 ==
    << <<"F", "e", "b">>,
       <<"2", "9">>,
       <<"0", "0", ":", "0", "0", ":", "0", "0">> >>

\* an invalid month name
\*   Xyz 5 10:00:00
Stamp_Xyz5 ==
    << <<"X", "y", "z">>,
       <<"5">>,
       <<"1", "0", ":", "0", "0", ":", "0", "0">> >>

\* an impossible day
\*   Jan 99 10:00:00
Stamp_Jan99 ==
    << <<"J", "a", "n">>,
       <<"9", "9">>,
       <<"1", "0", ":", "0", "0", ":", "0", "0">> >>

\* activity 'command' with process sudo
\*   server sudo[1234]: alice : TTY=pts/0 ; PWD=/home/alice ; USER=alice ; COMMAND=ls
Body_command ==
    << <<"s", "e", "r", "v", "e", "r">>,
       <<"s", "u", "d", "o", "[", "1", "2", "3", "4", "]", ":">>,
       <<"a", "l", "i", "c", "e">>,
       <<":">>,
       <<"T", "T", "Y", "=", "p", "t", "s", "/", "0">>,
       <<";">>,
       <<"P", "W", "D", "=", "/", "h", "o", "m", "e", "/", "a", "l", "i", "c", "e">>,
       <<";">>,
       <<"U", "S", "E", "R", "=", "a", "l", "i", "c", "e">>,
       <<";">>,
       <<"C", "O", "M", "M", "A", "N", "D", "=", "l", "s">> >>

\* activity 'sudo': a sudo command run as root
\*   server sudo[1234]: alice : TTY=pts/0 ; PWD=/home/alice ; USER=root ; COMMAND=apt update
Body_sudo_root ==
    << <<"s", "e", "r", "v", "e", "r">>,
       <<"s", "u", "d", "o", "[", "1", "2", "3", "4", "]", ":">>,
       <<"a", "l", "i", "c", "e">>,
       <<":">>,
       <<"T", "T", "Y", "=", "p", "t", "s", "/", "0">>,
       <<";">>,
       <<"P", "W", "D", "=", "/", "h", "o", "m", "e", "/", "a", "l", "i", "c", "e">>,
       <<";">>,
       <<"U", "S", "E", "R", "=", "r", "o", "o", "t">>,
       <<";">>,
       <<"C", "O", "M", "M", "A", "N", "D", "=", "a", "p", "t">>,
       <<"u", "p", "d", "a", "t", "e">> >>

\* a PAM authentication failure of sudo, the shape of sudo_failure_regex
\*   server sudo[1234]: pam_unix(sudo:auth): authentication failure; logname=alice uid=1000 euid=0 tty=/dev/pts/0 ruser=alice rhost=host user=alice
Body_sudo_failure ==
    << <<"s", "e", "r", "v", "e", "r">>,
       <<"s", "u", "d", "o", "[", "1", "2", "3", "4", "]", ":">>,
       <<"p", "a", "m", "_", "u", "n", "i", "x", "(", "s", "u", "d", "o", ":", "a", "u", "t", "h", ")", ":">>,
       <<"a", "u", "t", "h", "e", "n", "t", "i", "c", "a", "t", "i", "o", "n">>,
       <<"f", "a", "i", "l", "u", "r", "e", ";">>,
       <<"l", "o", "g", "n", "a", "m", "e", "=", "a", "l", "i", "c", "e">>,
       <<"u", "i", "d", "=", "1", "0", "0", "0">>,
       <<"e", "u", "i", "d", "=", "0">>,
       <<"t", "t", "y", "=", "/", "d", "e", "v", "/", "p", "t", "s", "/", "0">>,
       <<"r", "u", "s", "e", "r", "=", "a", "l", "i", "c", "e">>,
       <<"r", "h", "o", "s", "t", "=", "h", "o", "s", "t">>,
       <<"u", "s", "e", "r", "=", "a", "l", "i", "c", "e">> >>

\* activity 'new_user'
\*   server useradd[0]: new user: name=user100
Body_useradd ==
    << <<"s", "e", "r", "v", "e", "r">>,
       <<"u", "s", "e", "r", "a", "d", "d", "[", "0", "]", ":">>,
       <<"n", "e", "w">>,
       <<"u", "s", "e", "r", ":">>,
       <<"n", "a", "m", "e", "=", "u", "s", "e", "r", "1", "0", "0">> >>

\* activity 'del_user'
\*   server userdel[0]: delete user user100
Body_userdel ==
    << <<"s", "e", "r", "v", "e", "r">>,
       <<"u", "s", "e", "r", "d", "e", "l", "[", "0", "]", ":">>,
       <<"d", "e", "l", "e", "t", "e">>,
       <<"u", "s", "e", "r">>,
       <<"u", "s", "e", "r", "1", "0", "0">> >>

\* activity 'passwd_change'
\*   server passwd[1234]: password for alice changed by alice
Body_passwd ==
    << <<"s", "e", "r", "v", "e", "r">>,
       <<"p", "a", "s", "s", "w", "d", "[", "1", "2", "3", "4", "]", ":">>,
       <<"p", "a", "s", "s", "w", "o", "r", "d">>,
       <<"f", "o", "r">>,
       <<"a", "l", "i", "c", "e">>,
       <<"c", "h", "a", "n", "g", "e", "d">>,
       <<"b", "y">>,
       <<"a", "l", "i", "c", "e">> >>

\* activity 'su'
\*   server su[1234]: Successful su for alice by root
Body_su ==
    << <<"s", "e", "r", "v", "e", "r">>,
       <<"s", "u", "[", "1", "2", "3", "4", "]", ":">>,
       <<"S", "u", "c", "c", "e", "s", "s", "f", "u", "l">>,
       <<"s", "u">>,
       <<"f", "o", "r">>,
       <<"a", "l", "i", "c", "e">>,
       <<"b", "y">>,
       <<"r", "o", "o", "t">> >>

\* attack 'Failed password' / 'Hydra attack'
\*   server sshd[1234]: Failed password for admin from 203.0.113.50 port 22000 ssh2
Body_failed_login ==
    << <<"s", "e", "r", "v", "e", "r">>,
       <<"s", "s", "h", "d", "[", "1", "2", "3", "4", "]", ":">>,
       <<"F", "a", "i", "l", "e", "d">>,
       <<"p", "a", "s", "s", "w", "o", "r", "d">>,
       <<"f", "o", "r">>,
       <<"a", "d", "m", "i", "n">>,
       <<"f", "r", "o", "m">>,
       <<"2", "0", "3", ".", "0", ".", "1", "1", "3", ".", "5", "0">>,
       <<"p", "o", "r", "t">>,
       <<"2", "2", "0", "0", "0">>,
       <<"s", "s", "h", "2">> >>

\* the successful login closing a 'Hydra attack', from a source that is no dotted quad
\*   server sshd[1234]: Accepted password for alice from localhost port 22000 ssh2
Body_accepted_login ==
    << <<"s", "e", "r", "v", "e", "r">>,
       <<"s", "s", "h", "d", "[", "1", "2", "3", "4", "]", ":">>,
       <<"A", "c", "c", "e", "p", "t", "e", "d">>,
       <<"p", "a", "s", "s", "w", "o", "r", "d">>,
       <<"f", "o", "r">>,
       <<"a", "l", "i", "c", "e">>,
       <<"f", "r", "o", "m">>,
       <<"l", "o", "c", "a", "l", "h", "o", "s", "t">>,
       <<"p", "o", "r", "t">>,
       <<"2", "2", "0", "0", "0">>,
       <<"s", "s", "h", "2">> >>

\* attack 'Invalid user': no pattern matches it
\*   server sshd[1234]: Invalid user admin from 198.51.100.7 port 22000
Body_invalid_user ==
    << <<"s", "e", "r", "v", "e", "r">>,
       <<"s", "s", "h", "d", "[", "1", "2", "3", "4", "]", ":">>,
       <<"I", "n", "v", "a", "l", "i", "d">>,
       <<"u", "s", "e", "r">>,
       <<"a", "d", "m", "i", "n">>,
       <<"f", "r", "o", "m">>,
       <<"1", "9", "8", ".", "5", "1", ".", "1", "0", "0", ".", "7">>,
       <<"p", "o", "r", "t">>,
       <<"2", "2", "0", "0", "0">> >>

Stamps == {Stamp_Jan5, Stamp_Feb29, Stamp_Xyz5, Stamp_Jan99}

Bodies == {Body_command,
           Body_sudo_root,
           Body_sudo_failure,
           Body_useradd,
           Body_userdel,
           Body_passwd,
           Body_su,
           Body_failed_login,
           Body_accepted_login,
           Body_invalid_user}

\* a blank line: line.strip() leaves no token
BlankLine == <<>>

\* a comment-like line
CommentLine == << <<"#">>, <<"c", "o", "m", "m", "e", "n", "t">> >>

Lines == {s \o b : s \in Stamps, b \in Bodies} \cup {BlankLine, CommentLine}

--------------------------------------------------------------------------
(* Bounds *)

\* the longest input file read in one run
MaxLines == 2

\* the longest string given to sanitize_ip on its own
MaxIpLen == 7

\* the years the analyzer is constructed with: a common year and a leap year
Years == {2023, 2024}

IpAlphabet == {"1", "X", "."}

IpStrings == UNION {[1..n -> IpAlphabet] : n \in 0..MaxIpLen}

--------------------------------------------------------------------------
(* State *)

VARIABLES
    current_year,   \* self.current_year
    log_entries,    \* self.log_entries: a list of (timestamp, message)
    statistics,     \* self.statistics
    pc,             \* where analyze() stands
    line_num,       \* analyze: lines read so far
    line,           \* analyze: the line last read, stripped
    entry,          \* analyze: what parse_line returned for it
    result,         \* what analyze() returned: "none" while it runs
    report,         \* the output file
    input_order,    \* history: the entries parse_line returned, in input order
    ip,             \* the argument of a sanitize_ip call on its own
    masked,         \* what that call returned
    file_len,       \* the number of lines of the input file, once it is open
    run             \* the analyze() calls made on this analyzer so far

vars == <<current_year, log_entries, statistics, pc, line_num, line, entry,
          result, report, input_order, ip, masked, file_len, run>>

\* no output file
NoReport == [state |-> "absent", statistics |-> ZeroStatistics, body |-> <<>>]

\* the messages of the entries, in list order: lines 219-220
Body(entries) == [i \in 1..Len(entries) |-> entries[i][2]]

--------------------------------------------------------------------------
(* self.log_entries.sort(key=lambda x: x[0]), line 199 *)

\* InsertByKey placing an element ahead of the elements with an equal key
RECURSIVE InsertByKey_before_equal(_, _)
InsertByKey_before_equal(sorted, e) ==
    IF sorted = <<>> THEN <<e>>
    ELSE IF ~DatetimeLess(Head(sorted)[1], e[1]) THEN <<e>> \o sorted
    ELSE <<Head(sorted)>> \o InsertByKey_before_equal(Tail(sorted), e)

\* list.sort is stable: an element goes behind every element whose key is
\* not greater than its own
RECURSIVE InsertByKey(_, _)
InsertByKey(sorted, e) ==
    IF sorted = <<>> THEN <<e>>
    ELSE IF DatetimeLess(e[1], Head(sorted)[1]) THEN <<e>> \o sorted
    ELSE <<Head(sorted)>> \o InsertByKey(Tail(sorted), e)

RECURSIVE SortFrom(_, _)
SortFrom(sorted, rest) ==
    IF rest = <<>> THEN sorted
    ELSE SortFrom(InsertByKey(sorted, Head(rest)), Tail(rest))

sort(entries) == SortFrom(<<>>, entries)

--------------------------------------------------------------------------
(* analyze, lines 166-228 *)

\* keep_entry without the test of line 183
keep_entry_always(entries, r) ==
    [entry |-> r.entry,
     log_entries |-> Append(entries, r.entry),
     statistics |-> [r.statistics EXCEPT !["total_entries"] = @ + 1]]

\* lines 183-185, with what parse_line returned and left
keep_entry(entries, r) ==
    IF r.entry # None
    THEN [entry |-> r.entry,
          log_entries |-> Append(entries, r.entry),
          statistics |-> [r.statistics EXCEPT !["total_entries"] = @ + 1]]
    ELSE [entry |-> r.entry, log_entries |-> entries, statistics |-> r.statistics]

\* the loop body, lines 182-185
analyze_line(entries, stats, year, l) == keep_entry(entries, parse_line(stats, year, l))

\* __init__, lines 41-54
InitAnalyzer ==
    /\ current_year \in Years
    /\ log_entries = <<>>
    /\ statistics = ZeroStatistics
    /\ line_num = 0
    /\ line = <<>>
    /\ entry = None
    /\ result = "none"
    /\ report = NoReport
    /\ input_order = <<>>
    /\ file_len = 0
    /\ run = 1

Init ==
    /\ InitAnalyzer
    /\ pc = "init"
    /\ ip = <<>>
    /\ masked = <<>>

\* main, line 280: sys.exit(0 if success else 1)
ExitStatus(success) == IF success = "True" THEN 0 ELSE 1

\* AnalyzeNotFound with the output file opened ahead of the existence test
AnalyzeNotFound_creates_report ==
    /\ pc = "init"
    /\ pc' = "done"
    /\ result' = "False"
    /\ report' = [state |-> "partial", statistics |-> statistics, body |-> <<>>]
    /\ UNCHANGED <<current_year, log_entries, statistics, line_num, line, entry,
                   input_order, ip, masked, file_len, run>>

\* lines 174-176: the input file does not exist
AnalyzeNotFound ==
    /\ pc = "init"
    /\ pc' = "done"
    /\ result' = "False"
    /\ UNCHANGED <<current_year, log_entries, statistics, line_num, line, entry,
                   report, input_order, ip, masked, file_len, run>>

\* lines 174, 179-180: the input file exists and the loop is entered
AnalyzeOpen ==
    /\ pc = "init"
    /\ pc' = "reading"
    /\ \E n \in 0..MaxLines : file_len' = n
    /\ UNCHANGED <<current_year, log_entries, statistics, line_num, line, entry,
                   result, report, input_order, ip, masked, run>>

\* lines 181-185: one turn of the loop
ReadLine(l) ==
    /\ pc = "reading"
    /\ line_num < file_len
    /\ \E a \in {analyze_line(log_entries, statistics, current_year, l)} :
           /\ line' = l
           /\ entry' = a.entry
           /\ log_entries' = a.log_entries
           /\ statistics' = a.statistics
           /\ input_order' = IF a.entry # None THEN Append(input_order, a.entry)
                             ELSE input_order
    /\ line_num' = line_num + 1
    /\ UNCHANGED <<current_year, pc, result, report, ip, masked, file_len, run>>

\* lines 191-193: opening or reading the file raises
ReadError ==
    /\ pc = "reading"
    /\ pc' = "done"
    /\ result' = "False"
    /\ UNCHANGED <<current_year, log_entries, statistics, line_num, line, entry,
                   report, input_order, ip, masked, file_len, run>>

\* SortEntries without the sort of line 199
SortEntries_skips_sort ==
    /\ pc = "reading"
    /\ line_num = file_len
    /\ pc' = "write"
    /\ UNCHANGED <<current_year, log_entries, statistics, line_num, line, entry,
                   result, report, input_order, ip, masked, file_len, run>>

\* lines 195-199: the file is exhausted and the entries are sorted
SortEntries ==
    /\ pc = "reading"
    /\ line_num = file_len
    /\ pc' = "write"
    /\ log_entries' = sort(log_entries)
    /\ UNCHANGED <<current_year, statistics, line_num, line, entry, result,
                   report, input_order, ip, masked, file_len, run>>

\* lines 203-220, 226-228: the report is written
WriteReport ==
    /\ pc = "write"
    /\ pc' = "done"
    /\ report' = [state |-> "complete", statistics |-> statistics,
                  body |-> Body(log_entries)]
    /\ result' = "True"
    /\ UNCHANGED <<current_year, log_entries, statistics, line_num, line, entry,
                   input_order, ip, masked, file_len, run>>

\* lines 222-224: opening or writing the output file raises; what the file
\* then holds is not determined: what it held before (the open failed), or
\* the report up to some entry
WriteError ==
    /\ pc = "write"
    /\ pc' = "done"
    /\ \/ report' = report
       \/ \E k \in 0..Len(log_entries) :
            report' = [state |-> "partial", statistics |-> statistics,
                       body |-> SubSeq(Body(log_entries), 1, k)]
    /\ result' = "False"
    /\ UNCHANGED <<current_year, log_entries, statistics, line_num, line, entry,
                   input_order, ip, masked, file_len, run>>

Next ==
    \/ AnalyzeNotFound
    \/ AnalyzeOpen
    \/ \E l \in Lines : ReadLine(l)
    \/ ReadError
    \/ SortEntries
    \/ WriteReport
    \/ WriteError

Spec == Init /\ [][Next]_vars

--------------------------------------------------------------------------
(* analyze called again on the same LogAnalyzer: log_entries and statistics
   are set in __init__ only, so the second call starts from what the first
   one left *)

MaxRuns == 2

\* the lines the input file of a repeated run is drawn from
RerunLines == {Stamp_Jan5 \o Body_command, Stamp_Feb29 \o Body_failed_login,
               BlankLine}

\* lines 166-179: analyze is entered again; its locals are fresh, the
\* attributes of the object and the output file are as the last call left them
AnalyzeAgain ==
    /\ pc = "done"
    /\ run < MaxRuns
    /\ run' = run + 1
    /\ pc' = "init"
    /\ line_num' = 0
    /\ line' = <<>>
    /\ entry' = None
    /\ result' = "none"
    /\ input_order' = <<>>
    /\ file_len' = 0
    /\ UNCHANGED <<current_year, log_entries, statistics, report, ip, masked>>

NextRerun ==
    \/ AnalyzeNotFound
    \/ AnalyzeOpen
    \/ \E l \in RerunLines : ReadLine(l)
    \/ ReadError
    \/ SortEntries
    \/ WriteReport
    \/ WriteError
    \/ AnalyzeAgain

SpecRerun == Init /\ [][NextRerun]_vars

--------------------------------------------------------------------------
(* sanitize_ip on its own, over every short string of digits, X and dots *)

InitSanitize ==
    /\ InitAnalyzer
    /\ pc = "sanitize"
    /\ ip \in IpStrings
    /\ masked = <<>>

SanitizeCall ==
    /\ pc = "sanitize"
    /\ masked' = sanitize_ip(ip)
    /\ pc' = "sanitized"
    /\ UNCHANGED <<current_year, log_entries, statistics, line_num, line, entry,
                   result, report, input_order, ip, file_len, run>>

\* sanitize_ip applied to what the first call returned
SanitizeAgain ==
    /\ pc = "sanitized"
    /\ ip' = masked
    /\ masked' = sanitize_ip(masked)
    /\ pc' = "sanitized again"
    /\ UNCHANGED <<current_year, log_entries, statistics, line_num, line, entry,
                   result, report, input_order, file_len, run>>

NextSanitize == SanitizeCall \/ SanitizeAgain

SpecSanitize == InitSanitize /\ [][NextSanitize]_vars

--------------------------------------------------------------------------
(* Properties *)

\* a step of the loop of analyze: one more line has been read
ReadStep == line_num' = line_num + 1

\* the line matches at least one of the five patterns
MatchesSome(l) ==
    \/ command_regex(l)
    \/ user_regex(l)
    \/ sudo_command_regex(l)
    \/ sudo_failure_regex(l)
    \/ hydra_attack_regex(l)

\* strptime accepts the line's timestamp under the analyzer's year
ValidTimestamp(year, l) == LineTimestamp(year, l) # ValueError

\* the counters named in keep are the only ones a step may have changed
OnlyChanged(keep) == \A k \in CounterNames \ keep : statistics'[k] = statistics[k]

\* the step appended exactly one event, the entry parse_line returned
OneEvent ==
    /\ entry' # None
    /\ log_entries' = Append(log_entries, entry')

\* C1: a line with a valid timestamp that matches both the sudo command
\* pattern and the account pattern yields exactly one event, the "Command Log"
\* one; parse_line increments commands and leaves user_changes and
\* sudo_commands alone (analyze counts the entry in total_entries)
C1_CommandBeforeUser ==
    [][(/\ ReadStep
        /\ command_regex(line') /\ user_regex(line')
        /\ ValidTimestamp(current_year, line'))
       => (/\ OneEvent
           /\ entry'[2].kind = "Command Log"
           /\ statistics'["commands"] = statistics["commands"] + 1
           /\ statistics'["total_entries"] = statistics["total_entries"] + 1
           /\ OnlyChanged({"commands", "total_entries"}))]_vars

C1_Witness ==
    /\ line_num >= 1
    /\ command_regex(line) /\ user_regex(line)
    /\ entry # None
    /\ entry[2].kind = "Command Log"
    /\ statistics["commands"] = 1
    /\ statistics["user_changes"] = 0

\* C2: a line of the PAM sudo authentication-failure shape with a valid
\* timestamp yields one "ALERT! Failed sudo" event and increments failed_sudo
\* and potential_attacks by one each
C2_FailedSudoAlert ==
    [][(/\ ReadStep
        /\ sudo_failure_regex(line')
        /\ ValidTimestamp(current_year, line'))
       => (/\ OneEvent
           /\ entry'[2].kind = "ALERT! Failed sudo"
           /\ statistics'["failed_sudo"] = statistics["failed_sudo"] + 1
           /\ statistics'["potential_attacks"] = statistics["potential_attacks"] + 1)]_vars

\* C3: a line that matches one of the five patterns and has a valid timestamp
\* yields exactly one event and increments total_entries by exactly one
C3_MatchYieldsOneEvent ==
    [][(/\ ReadStep
        /\ MatchesSome(line')
        /\ ValidTimestamp(current_year, line'))
       => (/\ OneEvent
           /\ statistics'["total_entries"] = statistics["total_entries"] + 1)]_vars

\* C4: a sudo command line whose target is root, with a valid timestamp,
\* increments sudo_commands by one
C4_RootSudoCounted ==
    [][(/\ ReadStep
        /\ sudo_command_regex(line')
        /\ ValidTimestamp(current_year, line'))
       => statistics'["sudo_commands"] = statistics["sudo_commands"] + 1]_vars

\* C5: after every line, and through sorting and writing, total_entries is
\* the length of the event list, which is the number of lines for which
\* parse_line returned an event
C5_TotalIsEventCount ==
    /\ statistics["total_entries"] = Len(log_entries)
    /\ Len(log_entries) = Len(input_order)

C5_Witness ==
    /\ pc = "reading"
    /\ line_num = 2
    /\ entry = None
    /\ statistics["total_entries"] = 1
    /\ Len(log_entries) = 1

\* the timestamps of two messages are equal
SameTime(a, b) == ~DatetimeLess(a, b) /\ ~DatetimeLess(b, a)

\* body lists the messages of the entries in ascending timestamp order, those
\* of equal timestamp in the order the entries have in entries: some
\* rearrangement p of the entries gives body, never puts a later timestamp
\* first, and keeps entries of equal timestamp in their order
IsStableOrdering(entries, body) ==
    /\ Len(body) = Len(entries)
    /\ \E p \in Permutations(1..Len(entries)) :
         /\ \A i \in 1..Len(body) : body[i] = entries[p[i]][2]
         /\ \A i, j \in 1..Len(body) :
              i < j => /\ ~DatetimeLess(entries[p[j]][1], entries[p[i]][1])
                       /\ (SameTime(entries[p[i]][1], entries[p[j]][1]) => p[i] < p[j])

\* C6: the body of a written report lists the events in ascending timestamp
\* order, and events of equal timestamp in the order of their lines in the input
C6_ReportStableChronological ==
    report.state = "complete" => IsStableOrdering(input_order, report.body)

\* two events of one timestamp, a command log read before a failed login,
\* are reported in that order
C6_Witness ==
    /\ report.state = "complete"
    /\ Len(report.body) = 2
    /\ report.body[1].kind = "Command Log"
    /\ report.body[2].kind = "Hydra Attack - Failed login attempt"
    /\ report.body[1].timestamp = report.body[2].timestamp
    /\ input_order[1][2] = report.body[1]

\* C7: a line that matches a pattern but whose timestamp strptime rejects
\* yields no event and changes no counter, and the loop goes on: analyze has
\* not returned and still reads lines
C7_BadTimestampDropped ==
    [][(/\ ReadStep
        /\ MatchesSome(line')
        /\ ~ValidTimestamp(current_year, line'))
       => (/\ entry' = None
           /\ log_entries' = log_entries
           /\ statistics' = statistics
           /\ pc' = "reading"
           /\ result' = "none")]_vars

\* an account line dated Feb 29 in a common year, read after another line
\* and dropped, with the loop still running
C7_Witness ==
    /\ pc = "reading"
    /\ line_num = 2
    /\ user_regex(line)
    /\ ~ValidTimestamp(current_year, line)
    /\ MonthNum(line[1]) = 2
    /\ entry = None
    /\ Len(log_entries) = 1
    /\ statistics["user_changes"] = 0

\* C8: a login line with a valid timestamp yields exactly one event, whose
\* address is the sanitized source address; Failed increments failed_logins
\* and potential_attacks, Accepted increments successful_logins and leaves
\* potential_attacks alone; no other category counter changes
C8_LoginCounted ==
    [][(/\ ReadStep
        /\ hydra_attack_regex(line')
        /\ ValidTimestamp(current_year, line'))
       => (/\ OneEvent
           /\ entry'[2].ip = sanitize_ip(line'[11])
           /\ statistics'["total_entries"] = statistics["total_entries"] + 1
           /\ line'[6] = L_Failed =>
                /\ statistics'["failed_logins"] = statistics["failed_logins"] + 1
                /\ statistics'["potential_attacks"] = statistics["potential_attacks"] + 1
                /\ OnlyChanged({"failed_logins", "potential_attacks", "total_entries"})
           /\ line'[6] = L_Accepted =>
                /\ statistics'["successful_logins"] = statistics["successful_logins"] + 1
                /\ OnlyChanged({"successful_logins", "total_entries"}))]_vars

\* the failed login from 203.0.113.50 is rendered with 203.0.XXX.XXX
C8_Witness ==
    /\ line_num = 1
    /\ hydra_attack_regex(line)
    /\ line[6] = L_Failed
    /\ entry # None
    /\ entry[2].ip = <<"2", "0", "3", ".", "0", ".", "X", "X", "X", ".", "X", "X", "X">>
    /\ statistics["failed_logins"] = 1
    /\ statistics["potential_attacks"] = 1
    /\ statistics["successful_logins"] = 0

\* C9: a line that matches none of the five patterns yields no event and
\* leaves the counters and the event list as they were; analyze has not
\* returned and still reads lines
C9_NoiseIgnored ==
    [][(ReadStep /\ ~MatchesSome(line'))
       => (/\ entry' = None
           /\ log_entries' = log_entries
           /\ statistics' = statistics
           /\ pc' = "reading"
           /\ result' = "none")]_vars

\* a blank line read after a line that produced an event
C9_Witness ==
    /\ pc = "reading"
    /\ line_num = 2
    /\ line = BlankLine
    /\ entry = None
    /\ Len(log_entries) = 1
    /\ statistics["total_entries"] = 1

\* the places of the dots of a string
DotPositions(s) == {i \in 1..Len(s) : s[i] = "."}

\* the place of the second dot
SecondDot(s) ==
    CHOOSE i \in DotPositions(s) : Cardinality({j \in DotPositions(s) : j < i}) = 1

\* C10: sanitize_ip maps a string of exactly four dot-separated parts (three
\* dots) to its first two parts followed by ".XXX.XXX", and any other string
\* to "XXX.XXX.XXX.XXX"
C10_SanitizeMasks ==
    pc = "sanitized" =>
        IF Cardinality(DotPositions(ip)) = 3
        THEN masked = SubSeq(ip, 1, SecondDot(ip) - 1) \o MaskTail
        ELSE masked = FullMask

C10_Witness ==
    /\ pc = "sanitized"
    /\ ip = <<"1", ".", "1", ".", "1", ".", "1">>
    /\ masked = <<"1", ".", "1", ".", "X", "X", "X", ".", "X", "X", "X">>

\* C11: sanitize_ip is idempotent: applied to its own result, well-formed or
\* fully masked, it returns that result
C11_SanitizeIdempotent == pc = "sanitized again" => masked = ip

\* the result of a well-formed address, sanitized again
C11_Witness ==
    /\ pc = "sanitized again"
    /\ ip = <<"1", ".", "1", ".", "X", "X", "X", ".", "X", "X", "X">>
    /\ masked = ip

\* analyze gives up on the input: the path does not exist, or opening or
\* reading the file fails before a first line is read
InputFailure ==
    \/ pc = "init" /\ pc' = "done"
    \/ pc = "reading" /\ line_num = 0 /\ pc' = "done"

C13_WriteFailureAfterProcessing ==
    [][/\ (pc = "write" /\ result' = "False")
          => (/\ pc' = "done"
              /\ line_num = file_len
              /\ Len(log_entries) = Len(input_order)
              /\ IsStableOrdering(input_order, Body(log_entries)))
       /\ pc' = "done" => result' \in {"True", "False"}
       /\ pc' # "done" => result' = "none"]_vars

\* the write failed after two lines were read and their events, read in
\* descending order of time, were put in ascending order
C13_Witness ==
    /\ pc = "done"
    /\ result = "False"
    /\ report.state = "partial"
    /\ line_num = 2 /\ file_len = 2
    /\ Len(log_entries) = 2
    /\ log_entries[1] = input_order[2]
    /\ DatetimeLess(log_entries[1][1], log_entries[2][1])

\* C14: a step that leaves the event list as it was leaves every counter as
\* it was
C14_NoEventNoCount ==
    [][log_entries' = log_entries => statistics' = statistics]_vars

\* C15: every analyze call starts with an empty event list and every counter
\* at zero, and a report written in full holds as many events as the call
\* that wrote it classified
C15_RunsStartFresh ==
    /\ pc = "init" => (log_entries = <<>> /\ statistics = ZeroStatistics)
    /\ (pc = "done" /\ result = "True")
         => (/\ Len(report.body) = Len(input_order)
             /\ report.statistics["total_entries"] = Len(input_order))

\* 1 when the process name of an account line is sudo, else 0
SudoCount(l) == IF UserEvent(l) = L_sudo THEN 1 ELSE 0

\* C16: a line the account block classifies (user_regex matches, the command
\* block did not take it) with a valid timestamp increments user_changes by
\* one, and sudo_commands by one exactly when its process is sudo; commands,
\* failed_sudo, failed_logins, successful_logins and potential_attacks stay
C16_AccountLineCounted ==
    [][(/\ ReadStep
        /\ user_regex(line') /\ ~command_regex(line')
        /\ ValidTimestamp(current_year, line'))
       => (/\ statistics'["user_changes"] = statistics["user_changes"] + 1
           /\ statistics'["sudo_commands"] = statistics["sudo_commands"] + SudoCount(line')
           /\ OnlyChanged({"user_changes", "sudo_commands", "total_entries"}))]_vars

\* a sudo line only the account pattern takes, after a useradd line: two
\* account changes, one sudo command
C16_Witness ==
    /\ line_num = 2
    /\ user_regex(line) /\ ~command_regex(line)
    /\ UserEvent(line) = L_sudo
    /\ entry # None
    /\ entry[2].kind = "ALERT!!!! sudo Command"
    /\ statistics["user_changes"] = 2
    /\ statistics["sudo_commands"] = 1
    /\ statistics["commands"] = 0

\* C17: every counter is a natural number that no step of a run decreases,
\* and only the reading of a line changes the statistics: sorting and writing
\* leave them as they were
C17_CountersMonotone ==
    [][/\ \A k \in CounterNames :
            /\ statistics'[k] \in Nat
            /\ statistics'[k] >= statistics[k]
       /\ ~ReadStep => statistics' = statistics
       /\ report'.state = "complete" => report'.statistics = statistics]_vars

\* a finished run whose report shows the counts of two classified lines
C17_Witness ==
    /\ pc = "done"
    /\ result = "True"
    /\ statistics["total_entries"] = 2
    /\ statistics["commands"] = 1
    /\ statistics["failed_logins"] = 1
    /\ report.statistics = statistics

====
